---- MODULE Spec2Model ----
(***************************************************************************)
(* A model of TfidfDocRanker (tfidf_doc_ranker.py): the query vectorizer   *)
(* text2spvec, the ranking operations closest_docs and doc_scores, the     *)
(* metadata resolver doc_meta and the ThreadPool based batch operations.   *)
(*                                                                         *)
(* Floating point numbers are fixed-point integers with Unit fractional    *)
(* steps; NaN is a distinguished value that every arithmetic operation     *)
(* propagates and every comparison answers FALSE for, as IEEE-754 does.    *)
(***************************************************************************)
EXTENDS Integers, Sequences, FiniteSets, TLC

VARIABLES self, ret, pool, local, rows

vars == <<self, ret, pool, local, rows>>

(***************************************************************************)
(* Bounds of the model.                                                    *)
(***************************************************************************)
HashSize == 2        \* metadata['hash_size']: number of hashed buckets
NumDocs == 3         \* len(doc_dict[0]): number of documents
MaxWord == 2         \* words are 0..MaxWord; word 0 is a stop word
MaxQueryLen == 2     \* words in a raw query
MaxWeight == 1       \* largest entry of the term-document matrix
MaxDfExcess == 1     \* how far a corrupt doc_freqs entry may exceed num_docs
MaxK == 2            \* largest k of closest_docs
MaxIdxLen == 2       \* longest doc_idx list of doc_scores
MaxScale == 1        \* meta_scale ranges over 0..MaxScale
MaxBatch == 3        \* longest batch
MaxWorkers == 2      \* largest num_workers
MaxBoostLen == 1     \* most documents one meta-table key boosts (0, 1, ...)
Unit == 1000         \* fixed-point resolution of a float

Buckets == 0 .. (HashSize - 1)
Docs == 0 .. (NumDocs - 1)
Words == 0 .. MaxWord

(***************************************************************************)
(* Sequences helpers.                                                      *)
(***************************************************************************)
SeqsUpTo(S, n) == UNION {[1 .. m -> S] : m \in 0 .. n}

Range(s) == {s[i] : i \in DOMAIN s}

Min2(a, b) == IF a < b THEN a ELSE b

\* The elements of a finite set of integers in ascending order.
RECURSIVE Ascending(_)
Ascending(S) ==
  IF S = {} THEN <<>>
  ELSE LET m == CHOOSE x \in S : \A y \in S : x <= y
       IN <<m>> \o Ascending(S \ {m})

(***************************************************************************)
(* Floats.                                                                 *)
(***************************************************************************)
NaN == 0 - (Unit * Unit * Unit)

IsNaN(a) == a = NaN

FAdd(a, b) == IF IsNaN(a) \/ IsNaN(b) THEN NaN ELSE a + b

\* a * b of two fixed-point numbers
FMul(a, b) == IF IsNaN(a) \/ IsNaN(b) THEN NaN ELSE (a * b) \div Unit

\* a * n for a fixed-point a and an integer valued float n
FScale(a, n) == IF IsNaN(a) THEN NaN ELSE a * n

FLt(a, b) == ~IsNaN(a) /\ ~IsNaN(b) /\ a < b

FGe(a, b) == ~IsNaN(a) /\ ~IsNaN(b) /\ a >= b

\* The atanh series  ln(p/q) = 2 * sum_j z^(2j+1) / (2j+1),  z = (p-q)/(p+q),
\* summed in fixed point until the terms vanish.
RECURSIVE LnSeries(_, _, _)
LnSeries(term, z2, j) ==
  IF term = 0 THEN 0
  ELSE (term \div (2 * j + 1)) + LnSeries((term * z2) \div Unit, z2, j + 1)

\* ln(p / q) for integers p >= q > 0
LnGe1(p, q) ==
  LET z == ((p - q) * Unit) \div (p + q)
  IN 2 * LnSeries(z, (z * z) \div Unit, 0)

\* np.log(p / q) for an integer p # 0 and an integer q > 0: NaN for a negative
\* argument
NpLog(p, q) ==
  IF p < 0 THEN NaN
  ELSE IF p >= q THEN LnGe1(p, q) ELSE 0 - LnGe1(q, p)

\* np.log1p(c) for a count c
NpLog1p(c) == NpLog(1 + c, 1)

(***************************************************************************)
(* Queries: a raw query is a sequence of words.                            *)
(***************************************************************************)
Queries == SeqsUpTo(Words, MaxQueryLen)

\* utils.filter_ngram: the stop word is dropped
filter_ngram(w) == w = 0

\* utils.hash(w, hash_size): a deterministic bucket in [0, hash_size)
hash(w, hash_size) == w % hash_size

\* self.parse(utils.normalize(query)): the surviving 1-grams, in order
parse(query) == SelectSeq(query, LAMBDA w : ~filter_ngram(w))

\* wids = [utils.hash(w, self.hash_size) for w in words]
HashedWids(obj, query) ==
  LET words == parse(query)
  IN [i \in DOMAIN words |-> hash(words[i], obj.hash_size)]

(***************************************************************************)
(* text2spvec                                                              *)
(***************************************************************************)
\* np.unique(wids, return_counts=True)
WidsUnique(wids) == Ascending(Range(wids))

WidsCounts(wids) ==
  LET u == WidsUnique(wids)
  IN [i \in DOMAIN u |-> Cardinality({j \in DOMAIN wids : wids[j] = u[i]})]

\* the mutant of ClampIdf: the clamp is left out
ClampIdf_NoClamp(idf) == idf

\* idfs[idfs < 0] = 0
ClampIdf(idf) == IF FLt(idf, 0) THEN 0 ELSE idf

\* idfs = np.log((self.num_docs - Ns + 0.5) / (Ns + 0.5)), clamped
Idf(obj, t) ==
  LET Ns == obj.doc_freqs[t]
  IN ClampIdf(NpLog(2 * (obj.num_docs - Ns) + 1, 2 * Ns + 1))

\* data = np.multiply(tfs, idfs)
TfIdfData(obj, wids) ==
  LET u == WidsUnique(wids)
      c == WidsCounts(wids)
  IN [i \in DOMAIN u |-> FMul(NpLog1p(c[i]), Idf(obj, u[i]))]

\* sp.csr_matrix((data, indices, indptr), shape=(1, hash_size)); an empty
\* matrix has no stored entry
CsrRow(data, indices, n) == [kind |-> "csr", shape |-> n, indices |-> indices, data |-> data]

\* the mutant of EmptyQueryOutcome: strict is ignored and None is returned
EmptyQueryOutcome_Lenient(obj, val_idx) ==
  [status |-> "ok", value |-> [kind |-> "none", shape |-> 0, indices |-> <<>>, data |-> <<>>]]

\* lines 141-149: no hashed n-gram
EmptyQueryOutcome(obj, val_idx) ==
  IF obj.strict
  THEN [status |-> "RuntimeError", value |-> CsrRow(<<>>, <<>>, 0)]
  ELSE IF val_idx
       THEN [status |-> "ok", value |-> [kind |-> "arrays", shape |-> 0, indices |-> <<>>, data |-> <<>>]]
       ELSE [status |-> "ok", value |-> CsrRow(<<>>, <<>>, obj.hash_size)]

text2spvec(obj, query, val_idx) ==
  LET wids == HashedWids(obj, query)
  IN IF Len(wids) = 0
     THEN EmptyQueryOutcome(obj, val_idx)
     ELSE IF val_idx
          THEN [status |-> "ok",
                value |-> [kind |-> "arrays", shape |-> 0,
                           indices |-> WidsUnique(wids), data |-> TfIdfData(obj, wids)]]
          ELSE [status |-> "ok",
                value |-> CsrRow(TfIdfData(obj, wids), WidsUnique(wids), obj.hash_size)]

(***************************************************************************)
(* The score row  res = spvec * self.doc_mat  and the meta boost.          *)
(* A score row is the function from its stored column positions to their   *)
(* values: the product stores the nonzero sums only, an assignment stores  *)
(* whatever it is given.                                                   *)
(***************************************************************************)
RECURSIVE DotColumn(_, _, _, _)
DotColumn(obj, spvec, d, i) ==
  IF i > Len(spvec.indices) THEN 0
  ELSE LET m == obj.doc_mat[spvec.indices[i]][d]
           rest == DotColumn(obj, spvec, d, i + 1)
       IN IF m = 0 THEN rest ELSE FAdd(FScale(spvec.data[i], m), rest)

\* the mutant of RawScores: the product keeps a column for every document
RawScores_Dense(obj, spvec) ==
  [d \in 0 .. (obj.num_docs - 1) |-> DotColumn(obj, spvec, d, 1)]

\* res = spvec * self.doc_mat
RawScores(obj, spvec) ==
  LET stored == {d \in 0 .. (obj.num_docs - 1) : DotColumn(obj, spvec, d, 1) # 0}
  IN [d \in stored |-> DotColumn(obj, spvec, d, 1)]

StoredAt(res, d) == IF d \in DOMAIN res THEN res[d] ELSE 0

BoostOf(pos, vals, meta_scale, d) ==
  LET j == CHOOSE i \in DOMAIN pos : pos[i] = d
  IN vals[j] * Unit * meta_scale

\* the mutant of BoostStore for the direction of the boost
BoostStore_Subtract(obj, res, pos, vals, meta_scale) ==
  [res |-> [d \in (DOMAIN res) \cup Range(pos) |->
              IF d \in Range(pos)
              THEN FAdd(StoredAt(res, d), 0 - BoostOf(pos, vals, meta_scale, d))
              ELSE res[d]],
   obj |-> obj]

\* the mutant of BoostStore for aliasing: the boost is written through to the
\* matrix the row was computed from
BoostStore_Aliased(obj, res, pos, vals, meta_scale) ==
  [res |-> [d \in (DOMAIN res) \cup Range(pos) |->
              IF d \in Range(pos)
              THEN FAdd(StoredAt(res, d), BoostOf(pos, vals, meta_scale, d))
              ELSE res[d]],
   obj |-> [obj EXCEPT !.doc_mat =
              [t \in DOMAIN obj.doc_mat |->
                 [d \in DOMAIN obj.doc_mat[t] |->
                    IF d \in Range(pos) /\ BoostOf(pos, vals, meta_scale, d) # 0
                    THEN obj.doc_mat[t][d] + 1 ELSE obj.doc_mat[t][d]]]]]

\* res[0, pos] += np.array(vals) * meta_scale : the row owned by the call is
\* rewritten at pos (entries are inserted where none was stored); self is not
BoostStore(obj, res, pos, vals, meta_scale) ==
  [res |-> [d \in (DOMAIN res) \cup Range(pos) |->
              IF d \in Range(pos)
              THEN FAdd(StoredAt(res, d), BoostOf(pos, vals, meta_scale, d))
              ELSE res[d]],
   obj |-> obj]

\* query in self.doc_dict[3][m][0] : the keys of table that match the query
MetaLookup(obj, table, query) == {key \in DOMAIN table[1] : key = query}

\* lines 73-77 / 107-111: the loop over the requested meta sources
RECURSIVE MetaLoop(_, _, _, _, _, _)
MetaLoop(obj, res, query, meta, meta_scale, i) ==
  IF i > Len(meta) THEN [status |-> "ok", res |-> res, obj |-> obj]
  ELSE IF meta[i] \notin DOMAIN obj.doc_dict[4]
       THEN [status |-> "KeyError", res |-> res, obj |-> obj]
       ELSE LET table == obj.doc_dict[4][meta[i]]
                hit == MetaLookup(obj, table, query)
            IN IF hit = {}
               THEN MetaLoop(obj, res, query, meta, meta_scale, i + 1)
               ELSE LET key == CHOOSE x \in hit : TRUE
                        st == BoostStore(obj, res, table[1][key], table[2][key], meta_scale)
                    IN MetaLoop(st.obj, st.res, query, meta, meta_scale, i + 1)

\* if len(self.doc_dict) == 4: ...
AddMetaScores(obj, res, query, meta, meta_scale) ==
  IF Len(obj.doc_dict) = 4
  THEN MetaLoop(obj, res, query, meta, meta_scale, 1)
  ELSE [status |-> "ok", res |-> res, obj |-> obj]

\* lines 70-77 and 104-111: the boosted score row of a query
ScoreRow(obj, query, meta, meta_scale) ==
  LET v == text2spvec(obj, query, FALSE)
  IN IF v.status # "ok"
     THEN [status |-> v.status, res |-> <<>>, obj |-> obj]
     ELSE AddMetaScores(obj, RawScores(obj, v.value), query, meta, meta_scale)

(***************************************************************************)
(* closest_docs                                                            *)
(***************************************************************************)
\* the order np.argsort(-x) and np.argpartition(-x, k) sort by: descending
\* score, NaN last
RankLe(a, b) == IsNaN(b) \/ (~IsNaN(a) /\ a >= b)

Orders(S) == {s \in [1 .. Cardinality(S) -> S] : Range(s) = S}

\* o[np.argsort(-res.data[o])] : the orders of the positions o that sort
\* them; equal scores may come in any order
ArgSort(res, o) ==
  {s \in Orders(o) : \A i \in 1 .. (Len(s) - 1) : RankLe(res[s[i]], res[s[i + 1]])}

\* the mutant of ArgPartition: any k positions
ArgPartition_Any(res, k) ==
  {o \in SUBSET (DOMAIN res) : Cardinality(o) = k}

\* np.argpartition(-res.data, k)[0:k] : k positions none of which ranks after
\* a position left out
ArgPartition(res, k) ==
  {o \in SUBSET (DOMAIN res) :
     /\ Cardinality(o) = k
     /\ \A a \in o : \A b \in (DOMAIN res) \ o : RankLe(res[a], res[b])}

\* lines 79-83
TopK(res, k) ==
  IF Cardinality(DOMAIN res) <= k
  THEN ArgSort(res, DOMAIN res)
  ELSE UNION {ArgSort(res, o) : o \in ArgPartition(res, k)}

\* every outcome closest_docs can have
closest_docs(obj, query, meta, meta_scale, k) ==
  LET row == ScoreRow(obj, query, meta, meta_scale)
  IN IF row.status # "ok"
     THEN {[status |-> row.status, value |-> [ids |-> <<>>, scores |-> <<>>], obj |-> row.obj]}
     ELSE {[status |-> "ok",
            value |-> [ids |-> o_sort,
                       scores |-> [i \in DOMAIN o_sort |-> row.res[o_sort[i]]]],
            obj |-> row.obj] : o_sort \in TopK(row.res, k)}

(***************************************************************************)
(* doc_scores                                                              *)
(***************************************************************************)
\* the mutant of Gather: the stored entries only
Gather_Stored(res, doc_idx) ==
  LET kept == SelectSeq(doc_idx, LAMBDA d : d \in DOMAIN res)
  IN [j \in DOMAIN kept |-> res[kept[j]]]

\* res[0, doc_idx].toarray()[0].tolist()
Gather(res, doc_idx) == [j \in DOMAIN doc_idx |-> StoredAt(res, doc_idx[j])]

doc_scores(obj, query, doc_idx, meta, meta_scale) ==
  LET row == ScoreRow(obj, query, meta, meta_scale)
  IN IF row.status # "ok"
     THEN [status |-> row.status, value |-> <<>>, obj |-> row.obj]
     ELSE [status |-> "ok", value |-> Gather(row.res, doc_idx), obj |-> row.obj]

(***************************************************************************)
(* doc_meta                                                                *)
(***************************************************************************)
doc_meta(obj, pmid_or_title) ==
  IF Len(obj.doc_dict) >= 3
  THEN IF pmid_or_title \in DOMAIN obj.doc_dict[3]
       THEN [status |-> "ok", value |-> obj.doc_dict[3][pmid_or_title], obj |-> obj]
       ELSE [status |-> "ok", value |-> {}, obj |-> obj]
  ELSE [status |-> "ok", value |-> {}, obj |-> obj]

(***************************************************************************)
(* The ranker object: __init__ stores what the index file holds.           *)
(***************************************************************************)
MetaNames == {"covidex", "other"}

BoostValues == {0 - 1, 1}

DocId(d) == 2 * d + 1

Pmids == {DocId(d) : d \in Docs}

\* a pmid_or_title no document has
UnknownPmid == DocId(NumDocs)

DocMats == [Buckets -> [Docs -> 0 .. MaxWeight]]

\* doc_freqs of an index: 0 <= df[t] <= num_docs
DocFreqs == [Buckets -> 0 .. NumDocs]

\* doc_freqs as the index builder counts them: the documents that hold t
RowCounts(mat) == [t \in Buckets |-> Cardinality({d \in Docs : mat[t][d] # 0})]

\* doc_freqs of any file, also a corrupt one
AnyDocFreqs == [Buckets -> 0 .. (NumDocs + MaxDfExcess)]

\* doc_dict[2]: the metadata records; the last document has none
MetaRecords == [p \in Pmids \ {DocId(NumDocs - 1)} |-> {<<"pmid", p>>}]

\* the raw query a meta-source table may have as a key; other raw queries
\* (<<1, 0>>, <<0, 1>>) hash to the same n-grams
MetaKeys == {<<1>>}

\* doc_dict[3][m]: (query -> doc positions, query -> boost values), with at
\* most one key
SourceTables ==
  {<<<<>>, <<>>>>}
  \cup {<<[q \in {key} |-> [j \in DOMAIN vals |-> j - 1]], [q \in {key} |-> vals]>> :
          key \in MetaKeys,
          vals \in UNION {[1 .. n -> BoostValues] : n \in 1 .. Min2(MaxBoostLen, NumDocs)}}

\* doc_dict: (doc_id -> doc_index, doc_index -> doc_id[, doc_id -> metadata
\* [, meta source -> table]])
DocDict(n, tables) ==
  SubSeq(<<[p \in Pmids |-> (p - 1) \div 2],
           [d \in Docs |-> DocId(d)],
           MetaRecords,
           tables>>, 1, n)

\* __init__
Ranker(matrix, doc_freqs, doc_dict, strict) ==
  [doc_mat |-> matrix,
   hash_size |-> HashSize,
   doc_freqs |-> doc_freqs,
   doc_dict |-> doc_dict,
   num_docs |-> Cardinality(DOMAIN doc_dict[1]),
   strict |-> strict]

(***************************************************************************)
(* State: self is the ranker, ret the outcome of the last call that        *)
(* returned or raised, pool the ThreadPool job of a running batch call and *)
(* local the local variables of the pool's worker threads.                 *)
(***************************************************************************)
MetaLists == {<<>>, <<"covidex">>, <<"other">>, <<"covidex", "other">>}

Scales == 0 .. MaxScale

DocIdxLists == SeqsUpTo(Docs, MaxIdxLen)

NoCall ==
  [op |-> "none", items |-> <<>>, query |-> <<>>, meta |-> <<>>, meta_scale |-> 0, k |-> 0,
   doc_idx |-> <<>>, val_idx |-> FALSE, status |-> "none", value |-> <<>>]

IdlePool ==
  [state |-> "idle", op |-> "none", items |-> <<>>, meta |-> <<>>, meta_scale |-> 0,
   k |-> 0, num_workers |-> 0, chunksize |-> 0, taskqueue |-> <<>>,
   success |-> TRUE, value |-> <<>>, number_left |-> 0, ready |-> FALSE]

IdleWorker == [pc |-> "get", task |-> 0, item |-> 0, out |-> <<>>]

InitOf(rankers) ==
  /\ self \in rankers
  /\ ret = NoCall
  /\ pool = IdlePool
  /\ local = [w \in 1 .. MaxWorkers |-> IdleWorker]
  /\ rows = [w \in 1 .. MaxWorkers |-> <<>>]

\* the caller is ready for its next call
Ready == pool.state = "idle" /\ ret.op = "none"

\* the caller takes the outcome of its last call
Return ==
  /\ pool.state = "idle"
  /\ ret.op # "none"
  /\ ret' = NoCall
  /\ UNCHANGED <<self, pool, local, rows>>

\* a caller invokes text2spvec(query, val_idx)
CallText2Spvec ==
  /\ Ready
  /\ \E query \in Queries, val_idx \in BOOLEAN :
       LET r == text2spvec(self, query, val_idx)
       IN ret' = [NoCall EXCEPT !.op = "text2spvec", !.query = query,
                                !.val_idx = val_idx, !.status = r.status,
                                !.value = r.value]
  /\ UNCHANGED <<self, pool, local, rows>>

\* a caller invokes closest_docs(query, meta, meta_scale, k)
CallClosestDocs ==
  /\ Ready
  /\ \E query \in Queries, meta \in MetaLists, meta_scale \in Scales, k \in 1 .. MaxK :
       \E r \in closest_docs(self, query, meta, meta_scale, k) :
         /\ ret' = [NoCall EXCEPT !.op = "closest_docs", !.query = query,
                                  !.meta = meta, !.meta_scale = meta_scale, !.k = k,
                                  !.status = r.status, !.value = r.value]
         /\ self' = r.obj
  /\ UNCHANGED <<pool, local, rows>>

\* a caller invokes doc_scores((query, doc_idx), meta, meta_scale)
CallDocScores ==
  /\ Ready
  /\ \E query \in Queries, doc_idx \in DocIdxLists, meta \in MetaLists, meta_scale \in Scales :
       LET r == doc_scores(self, query, doc_idx, meta, meta_scale)
       IN /\ ret' = [NoCall EXCEPT !.op = "doc_scores", !.query = query,
                                   !.doc_idx = doc_idx, !.meta = meta,
                                   !.meta_scale = meta_scale,
                                   !.status = r.status, !.value = r.value]
          /\ self' = r.obj
  /\ UNCHANGED <<pool, local, rows>>

\* a caller invokes doc_meta(pmid_or_title)
CallDocMeta ==
  /\ Ready
  /\ \E p \in Pmids \cup {UnknownPmid} :
       LET r == doc_meta(self, p)
       IN /\ ret' = [NoCall EXCEPT !.op = "doc_meta", !.query = <<p>>,
                                   !.status = r.status, !.value = r.value]
          /\ self' = r.obj
  /\ UNCHANGED <<pool, local, rows>>

(***************************************************************************)
(* SpecVec: the query vectorizer over every doc_freqs vector a file can    *)
(* hold.                                                                   *)
(***************************************************************************)
ZeroMat == [t \in Buckets |-> [d \in Docs |-> 0]]

VecRankers ==
  {Ranker(ZeroMat, df, DocDict(2, <<>>), strict) : df \in AnyDocFreqs, strict \in BOOLEAN}

InitVec == InitOf(VecRankers)

NextVec == CallText2Spvec \/ Return

SpecVec == InitVec /\ [][NextVec]_vars

(***************************************************************************)
(* SpecRank: closest_docs and doc_meta over every index.                    *)
(***************************************************************************)
RankDicts ==
  {DocDict(3, <<>>)}
  \cup {DocDict(4, [m \in {"covidex"} |-> table]) : table \in SourceTables}

RankRankers ==
  {Ranker(mat, df, dd, strict) :
     mat \in DocMats, df \in DocFreqs, dd \in RankDicts, strict \in BOOLEAN}

InitRank == InitOf(RankRankers)

NextRank == CallClosestDocs \/ CallDocMeta \/ Return

SpecRank == InitRank /\ [][NextRank]_vars

(***************************************************************************)
(* The batch operations: ThreadPool(num_workers).map(f, items).            *)
(* map cuts the items into chunks, one task per chunk; each worker thread  *)
(* takes the next task, applies f to the chunk's items in order and hands  *)
(* (success, results) or (failure, exception) to MapResult._set; map       *)
(* returns or raises once the result is ready.                             *)
(***************************************************************************)
\* the inputs of the batch calls
BatchQueries == {<<>>} \cup {<<w>> : w \in 1 .. MaxWord}

BatchDocIdx == {<<d, 0>> : d \in {0, NumDocs - 1}}

BatchMetaLists == {<<"covidex">>, <<"covidex", "other">>}

BatchScale == MaxScale

BatchPmids == {DocId(0), UnknownPmid}

BatchOps == {"batch_closest_docs", "batch_doc_scores", "batch_doc_meta"}

\* chunksize, extra = divmod(len(iterable), len(self._pool) * 4)
ChunkSize(n, num_workers) ==
  IF n = 0 THEN 0
  ELSE (n \div (num_workers * 4)) + (IF n % (num_workers * 4) # 0 THEN 1 ELSE 0)

NumChunks(n, chunksize) ==
  IF chunksize = 0 THEN 0
  ELSE (n \div chunksize) + (IF n % chunksize # 0 THEN 1 ELSE 0)

\* the items of chunk i (i counts from 0), as positions of the item list
ChunkFirst(p, i) == i * p.chunksize + 1

ChunkLast(p, i) == Min2((i + 1) * p.chunksize, Len(p.items))

\* with ThreadPool(num_workers) as threads: results = threads.map(f, items)
StartMap(op, items, meta, meta_scale, k, num_workers) ==
  LET cs == ChunkSize(Len(items), num_workers)
      n == NumChunks(Len(items), cs)
  IN [state |-> "running", op |-> op, items |-> items, meta |-> meta,
      meta_scale |-> meta_scale, k |-> k, num_workers |-> num_workers,
      chunksize |-> cs, taskqueue |-> [j \in 1 .. n |-> j - 1],
      success |-> TRUE, value |-> [j \in 1 .. Len(items) |-> <<>>],
      number_left |-> n, ready |-> (n = 0)]

\* the mutant of StoreChunk: results are appended in completion order
StoreChunk_Append(p, i, result) ==
  LET done == (NumChunks(Len(p.items), p.chunksize) - p.number_left) * p.chunksize
  IN [j \in 1 .. Len(p.value) |->
        IF j > done /\ j <= done + Len(result) THEN result[j - done] ELSE p.value[j]]

\* self._value[i*chunksize:(i+1)*chunksize] = result
StoreChunk(p, i, result) ==
  [j \in 1 .. Len(p.value) |->
     IF j >= ChunkFirst(p, i) /\ j <= ChunkLast(p, i)
     THEN result[j - ChunkFirst(p, i) + 1] ELSE p.value[j]]

\* MapResult._set(i, (success, result))
MapResultSet(p, i, success, result) ==
  IF success /\ p.success
  THEN [p EXCEPT !.number_left = p.number_left - 1,
                 !.value = StoreChunk(p, i, result),
                 !.ready = (p.number_left - 1 = 0)]
  ELSE [p EXCEPT !.number_left = p.number_left - 1,
                 !.success = FALSE,
                 !.value = IF ~success /\ p.success THEN result ELSE p.value,
                 !.ready = (p.number_left - 1 = 0)]

\* spvec and res are local variables of the call a worker is running
RowSlot(w) == w

\* the query of item j of the running batch
ItemQuery(p, j) == IF p.op = "batch_doc_scores" THEN p.items[j][1] ELSE p.items[j]

\* batch_closest_docs(queries, meta, meta_scale, k, num_workers)
BatchClosestDocs ==
  /\ Ready
  /\ \E queries \in SeqsUpTo(BatchQueries, MaxBatch), meta \in BatchMetaLists,
        k \in 1 .. MaxK, num_workers \in 1 .. MaxWorkers :
       pool' = StartMap("batch_closest_docs", queries, meta, BatchScale, k, num_workers)
  /\ UNCHANGED <<self, ret, local, rows>>

\* batch_doc_scores(queries, doc_idxs, meta, meta_scale, num_workers): the
\* items are zip(queries, doc_idxs)
BatchDocScores ==
  /\ Ready
  /\ \E items \in SeqsUpTo(BatchQueries \X BatchDocIdx, MaxBatch), meta \in BatchMetaLists,
        num_workers \in 1 .. MaxWorkers :
       pool' = StartMap("batch_doc_scores", items, meta, BatchScale, 0, num_workers)
  /\ UNCHANGED <<self, ret, local, rows>>

\* batch_doc_meta(pmids, num_workers)
BatchDocMeta ==
  /\ Ready
  /\ \E pmids \in SeqsUpTo(BatchPmids, MaxBatch), num_workers \in 1 .. MaxWorkers :
       pool' = StartMap("batch_doc_meta", pmids, <<>>, 0, 0, num_workers)
  /\ UNCHANGED <<self, ret, local, rows>>

\* task = get(): a worker thread takes the next task
WorkerGet(w) ==
  /\ pool.state = "running"
  /\ w <= pool.num_workers
  /\ local[w].pc = "get"
  /\ pool.taskqueue # <<>>
  /\ pool' = [pool EXCEPT !.taskqueue = Tail(pool.taskqueue)]
  /\ local' = [local EXCEPT ![w] =
                 [pc |-> IF pool.op = "batch_doc_meta" THEN "finish" ELSE "score",
                  task |-> Head(pool.taskqueue),
                  item |-> ChunkFirst(pool, Head(pool.taskqueue)),
                  out |-> <<>>]]
  /\ UNCHANGED <<self, ret, rows>>

\* lines 70-71 / 104-105 in a worker: spvec = self.text2spvec(query);
\* res = spvec * self.doc_mat.  An exception ends the task.
WorkerScore(w) ==
  /\ pool.state = "running"
  /\ local[w].pc = "score"
  /\ LET v == text2spvec(self, ItemQuery(pool, local[w].item), FALSE)
     IN IF v.status = "ok"
        THEN /\ rows' = [rows EXCEPT ![RowSlot(w)] = RawScores(self, v.value)]
             /\ local' = [local EXCEPT ![w].pc = "finish"]
             /\ pool' = pool
        ELSE /\ pool' = MapResultSet(pool, local[w].task, FALSE, v.status)
             /\ local' = [local EXCEPT ![w] = IdleWorker]
             /\ rows' = rows
  /\ UNCHANGED <<self, ret>>

\* every outcome of the rest of the call a worker is running, from its score
\* row on: lines 73-88, lines 107-115, or doc_meta
FinishOutcomes(obj, p, row, j) ==
  IF p.op = "batch_doc_meta"
  THEN {doc_meta(obj, p.items[j])}
  ELSE LET st == AddMetaScores(obj, row, ItemQuery(p, j), p.meta, p.meta_scale)
       IN IF st.status # "ok"
          THEN {[status |-> st.status, value |-> <<>>, obj |-> st.obj]}
          ELSE IF p.op = "batch_doc_scores"
               THEN {[status |-> "ok", value |-> Gather(st.res, p.items[j][2]),
                      obj |-> st.obj]}
               ELSE {[status |-> "ok",
                      value |-> [ids |-> o_sort,
                                 scores |-> [i \in DOMAIN o_sort |-> st.res[o_sort[i]]]],
                      obj |-> st.obj] : o_sort \in TopK(st.res, p.k)}

\* the rest of the call, whose return drops its score row; after the chunk's
\* last item the task's results are handed to MapResult._set, an exception is
\* handed over at once
WorkerFinish(w) ==
  /\ pool.state = "running"
  /\ local[w].pc = "finish"
  /\ \E r \in FinishOutcomes(self, pool, rows[RowSlot(w)], local[w].item) :
       /\ self' = r.obj
       /\ IF r.status # "ok"
          THEN /\ pool' = MapResultSet(pool, local[w].task, FALSE, r.status)
               /\ local' = [local EXCEPT ![w] = IdleWorker]
          ELSE IF local[w].item < ChunkLast(pool, local[w].task)
               THEN /\ local' = [local EXCEPT ![w].item = local[w].item + 1,
                                              ![w].out = Append(local[w].out, r.value),
                                              ![w].pc = IF pool.op = "batch_doc_meta"
                                                        THEN "finish" ELSE "score"]
                    /\ pool' = pool
               ELSE /\ pool' = MapResultSet(pool, local[w].task, TRUE,
                                            Append(local[w].out, r.value))
                    /\ local' = [local EXCEPT ![w] = IdleWorker]
  /\ rows' = [rows EXCEPT ![RowSlot(w)] = <<>>]
  /\ UNCHANGED ret

\* threads.map returns the results or raises the stored exception once the
\* result is ready; leaving the with block ends the pool
MapReturn ==
  /\ pool.state = "running"
  /\ pool.ready
  /\ ret' = [NoCall EXCEPT !.op = pool.op, !.items = pool.items, !.meta = pool.meta,
                           !.meta_scale = pool.meta_scale, !.k = pool.k,
                           !.status = IF pool.success THEN "ok" ELSE pool.value,
                           !.value = IF pool.success THEN pool.value ELSE <<>>]
  /\ pool' = IdlePool
  /\ UNCHANGED <<self, local, rows>>

(***************************************************************************)
(* Spec: every operation, the batch operations step by step.               *)
(***************************************************************************)
\* documents that hold one hashed feature each
OneTermMats == {mat \in DocMats : \A d \in Docs : Cardinality({t \in Buckets : mat[t][d] # 0}) = 1}

BatchDicts ==
  {DocDict(4, [m \in {"covidex"} |-> table]) : table \in SourceTables \ {<<<<>>, <<>>>>}}

BatchRankers ==
  {Ranker(mat, RowCounts(mat), dd, strict) :
     mat \in OneTermMats, dd \in BatchDicts, strict \in BOOLEAN}

Init == InitOf(BatchRankers)

Next ==
  \/ CallText2Spvec
  \/ CallClosestDocs
  \/ CallDocScores
  \/ CallDocMeta
  \/ BatchClosestDocs
  \/ BatchDocScores
  \/ BatchDocMeta
  \/ \E w \in 1 .. MaxWorkers : WorkerGet(w)
  \/ \E w \in 1 .. MaxWorkers : WorkerScore(w)
  \/ \E w \in 1 .. MaxWorkers : WorkerFinish(w)
  \/ MapReturn
  \/ Return

Spec == Init /\ [][Next]_vars

(***************************************************************************)
(* SpecScores: doc_scores and closest_docs over the indexes the builder    *)
(* writes (doc_freqs counted from the matrix) and every meta table.        *)
(***************************************************************************)
ScoresRankers ==
  {Ranker(mat, RowCounts(mat), dd, strict) :
     mat \in DocMats, dd \in RankDicts, strict \in BOOLEAN}

InitScores == InitOf(ScoresRankers)

NextScores == CallDocScores \/ CallClosestDocs \/ Return

SpecScores == InitScores /\ [][NextScores]_vars

(***************************************************************************)
(* What the claims are stated with.                                        *)
(***************************************************************************)
\* the dot product of the query's vector with document d
DotProduct(obj, query, d) == DotColumn(obj, text2spvec(obj, query, FALSE).value, d, 1)

\* document d holds a hashed feature of the query
SharesFeature(obj, query, d) ==
  \E i \in DOMAIN HashedWids(obj, query) : obj.doc_mat[HashedWids(obj, query)[i]][d] # 0

\* the requested meta sources that boost for the query: present in the
\* table, with the exact raw query string as a key
Boosting(obj, query, meta) ==
  IF Len(obj.doc_dict) # 4 THEN {}
  ELSE {m \in Range(meta) \cap DOMAIN obj.doc_dict[4] : query \in DOMAIN obj.doc_dict[4][m][1]}

\* the boost values document d gets for the query, summed over the sources
RECURSIVE BoostValueSum(_, _, _, _)
BoostValueSum(obj, query, sources, d) ==
  IF sources = {} THEN 0
  ELSE LET m == CHOOSE x \in sources : TRUE
           pos == obj.doc_dict[4][m][1][query]
           vals == obj.doc_dict[4][m][2][query]
           here == IF d \in Range(pos)
                   THEN vals[CHOOSE j \in DOMAIN pos : pos[j] = d] ELSE 0
       IN here + BoostValueSum(obj, query, sources \ {m}, d)

Boosted(obj, query, meta, d) ==
  \E m \in Boosting(obj, query, meta) : d \in Range(obj.doc_dict[4][m][1][query])

RetRanked == ret.op = "closest_docs" /\ ret.status = "ok"

RetScored == ret.op = "doc_scores" /\ ret.status = "ok"

(***************************************************************************)
(* C1: a batch call that returns gives a list as long as its input whose   *)
(* element i is a result of the single-item operation on item i, whatever  *)
(* the number of workers and the order the tasks complete in.              *)
(***************************************************************************)
SingleResults(obj, op, item, meta, meta_scale, k) ==
  IF op = "batch_closest_docs"
  THEN {r.value : r \in {x \in closest_docs(obj, item, meta, meta_scale, k) : x.status = "ok"}}
  ELSE IF op = "batch_doc_scores"
       THEN {r.value : r \in {x \in {doc_scores(obj, item[1], item[2], meta, meta_scale)} :
                                 x.status = "ok"}}
       ELSE {doc_meta(obj, item).value}

BatchPreservesOrder ==
  (ret.op \in BatchOps /\ ret.status = "ok") =>
    /\ Len(ret.value) = Len(ret.items)
    /\ \A i \in 1 .. Len(ret.items) :
         ret.value[i] \in SingleResults(self, ret.op, ret.items[i], ret.meta,
                                        ret.meta_scale, ret.k)

\* a batch of at least two items with different results has returned
BatchPreservesOrderWitness ==
  /\ ret.op = "batch_closest_docs"
  /\ ret.status = "ok"
  /\ Len(ret.items) >= 2
  /\ ret.value[1] # ret.value[2]
  /\ ret.value[1].ids # <<>>

(***************************************************************************)
(* C2 as claimed: closest_docs returns at most k results, with strictly    *)
(* descending scores, each a document whose dot product with the query     *)
(* vector is nonzero.                                                      *)
(***************************************************************************)
ClosestDocsStrictlyDescendingNonzeroDot ==
  RetRanked =>
    /\ Len(ret.value.ids) <= ret.k
    /\ \A i \in 1 .. (Len(ret.value.scores) - 1) :
         ret.value.scores[i] > ret.value.scores[i + 1]
    /\ \A i \in 1 .. Len(ret.value.ids) :
         DotProduct(self, ret.query, ret.value.ids[i]) # 0

(***************************************************************************)
(* C2 as amended: closest_docs returns at most k results, no score is      *)
(* lower than the next one (equal scores do occur), and each result is a   *)
(* document whose dot product with the query vector is nonzero or that a   *)
(* requested meta source boosts for the query.                             *)
(***************************************************************************)
ClosestDocsDescendingCandidates ==
  RetRanked =>
    /\ Len(ret.value.ids) <= ret.k
    /\ Len(ret.value.scores) = Len(ret.value.ids)
    /\ \A i \in 1 .. (Len(ret.value.scores) - 1) :
         ret.value.scores[i] >= ret.value.scores[i + 1]
    /\ \A i \in 1 .. Len(ret.value.ids) :
         \/ DotProduct(self, ret.query, ret.value.ids[i]) # 0
         \/ Boosted(self, ret.query, ret.meta, ret.value.ids[i])

\* two results, one of them a document that a boost put into the score row
\* (its dot product is zero)
ClosestDocsDescendingWitness ==
  /\ RetRanked
  /\ Len(ret.value.ids) = 2
  /\ \E i \in 1 .. 2 :
       /\ DotProduct(self, ret.query, ret.value.ids[i]) = 0
       /\ Boosted(self, ret.query, ret.meta, ret.value.ids[i])

(***************************************************************************)
(* C3: doc_scores returns exactly len(doc_idx) numbers, the j-th being the *)
(* dot product of document doc_idx[j] plus its boosts times meta_scale,    *)
(* and 0 for a document that shares no hashed feature with the query and   *)
(* gets no boost.                                                          *)
(***************************************************************************)
DocScoresPositional ==
  RetScored =>
    /\ Len(ret.value) = Len(ret.doc_idx)
    /\ \A j \in 1 .. Len(ret.doc_idx) :
         LET d == ret.doc_idx[j]
             sources == Boosting(self, ret.query, ret.meta)
         IN /\ ret.value[j] = DotProduct(self, ret.query, d)
                              + BoostValueSum(self, ret.query, sources, d) * Unit * ret.meta_scale
            /\ (~SharesFeature(self, ret.query, d) /\ ~Boosted(self, ret.query, ret.meta, d))
                 => ret.value[j] = 0

\* two positions asked for, the first a document without overlap and boost,
\* the second one with a score
DocScoresPositionalWitness ==
  /\ RetScored
  /\ Len(ret.doc_idx) = 2
  /\ ~SharesFeature(self, ret.query, ret.doc_idx[1])
  /\ ~Boosted(self, ret.query, ret.meta, ret.doc_idx[1])
  /\ ret.value[1] = 0
  /\ ret.value[2] > 0

(***************************************************************************)
(* C4: for the vector (val_idx = False) of a query without hashed n-grams, *)
(* text2spvec raises the Empty-Query error when strict, and returns a      *)
(* vector of dimension hash_size without a nonzero entry when not; a query *)
(* with an n-gram never raises.                                            *)
(***************************************************************************)
EmptyQueryHandling ==
  (ret.op = "text2spvec" /\ ~ret.val_idx) =>
    IF HashedWids(self, ret.query) = <<>>
    THEN IF self.strict
         THEN ret.status = "RuntimeError"
         ELSE /\ ret.status = "ok"
              /\ ret.value.kind = "csr"
              /\ ret.value.shape = self.hash_size
              /\ \A i \in DOMAIN ret.value.data : ret.value.data[i] = 0
    ELSE /\ ret.status = "ok"
         /\ ret.value.kind = "csr"

\* a query of stop words only was vectorized by a ranker that is not strict
EmptyQueryHandlingWitness ==
  /\ ret.op = "text2spvec"
  /\ ~ret.val_idx
  /\ ret.query # <<>>
  /\ HashedWids(self, ret.query) = <<>>
  /\ ~self.strict
  /\ ret.status = "ok"

(***************************************************************************)
(* C5 as claimed: when an item of batch_closest_docs or batch_doc_scores   *)
(* raises the Empty-Query error (strict), the batch call fails with the    *)
(* Empty-Query error.                                                      *)
(***************************************************************************)
BatchItems(r) ==
  IF r.op = "batch_doc_scores" THEN [i \in DOMAIN r.items |-> r.items[i][1]] ELSE r.items

BatchFailsWithEmptyQuery ==
  (/\ ret.op \in {"batch_closest_docs", "batch_doc_scores"}
   /\ self.strict
   /\ \E i \in DOMAIN ret.items : HashedWids(self, BatchItems(ret)[i]) = <<>>)
    => ret.status = "RuntimeError"

(***************************************************************************)
(* C6: no operation changes the ranker (matrix, doc_freqs, doc_dict), and  *)
(* the score row a worker boosts is the one its own call computed.         *)
(***************************************************************************)
RowsOwned ==
  \A w \in 1 .. MaxWorkers :
    (pool.state = "running" /\ local[w].pc = "finish" /\ pool.op # "batch_doc_meta")
      => rows[w] = RawScores(self, text2spvec(self, ItemQuery(pool, local[w].item), FALSE).value)

IndexReadOnly == [][self' = self]_vars /\ []RowsOwned

\* a batch of at least two queries has returned a document that was put into
\* the score row by a boost (its dot product is zero)
IndexReadOnlyWitness ==
  /\ ret.op = "batch_closest_docs"
  /\ ret.status = "ok"
  /\ Len(ret.items) >= 2
  /\ \E j \in DOMAIN ret.items : \E i \in DOMAIN ret.value[j].ids :
       /\ Boosted(self, ret.items[j], ret.meta, ret.value[j].ids[i])
       /\ DotProduct(self, ret.items[j], ret.value[j].ids[i]) = 0

(***************************************************************************)
(* C7 as claimed: every weight of a query vector is >= 0 and the idf of    *)
(* its bucket is >= 0, for every document frequency.                       *)
(***************************************************************************)
RetWeights == ret.op = "text2spvec" /\ ret.status = "ok"

WeightsNeverNegative ==
  RetWeights =>
    \A i \in DOMAIN ret.value.data :
      /\ FGe(Idf(self, ret.value.indices[i]), 0)
      /\ FGe(ret.value.data[i], 0)

(***************************************************************************)
(* C7 as amended: for a bucket with df <= num_docs the idf is clamped to   *)
(* >= 0 and the weight is >= 0; for df > num_docs the logarithm's argument *)
(* is negative, and the idf and the weight are NaN, which the clamp leaves.*)
(***************************************************************************)
WeightsNonNegativeOrNaN ==
  RetWeights =>
    \A i \in DOMAIN ret.value.data :
      LET t == ret.value.indices[i]
      IN IF self.doc_freqs[t] <= self.num_docs
         THEN FGe(Idf(self, t), 0) /\ FGe(ret.value.data[i], 0)
         ELSE IsNaN(Idf(self, t)) /\ IsNaN(ret.value.data[i])

\* a bucket most documents hold (its logarithm is negative) got weight 0
WeightsNonNegativeWitness ==
  /\ RetWeights
  /\ \E i \in DOMAIN ret.value.data :
       /\ 2 * self.doc_freqs[ret.value.indices[i]] > self.num_docs
       /\ self.doc_freqs[ret.value.indices[i]] <= self.num_docs
       /\ ret.value.data[i] = 0

(***************************************************************************)
(* C8 as claimed: the score doc_scores gives a document, and the score     *)
(* closest_docs returns a document with, is not lower than the score of    *)
(* the same call with a smaller meta_scale.                                *)
(***************************************************************************)
ScoreAtScale(obj, query, meta, meta_scale, d) ==
  StoredAt(ScoreRow(obj, query, meta, meta_scale).res, d)

MonotoneFor(docs) ==
  /\ RetScored =>
       \A j \in 1 .. Len(ret.doc_idx) : \A s \in Scales :
         (s <= ret.meta_scale /\ ret.doc_idx[j] \in docs)
           => ScoreAtScale(self, ret.query, ret.meta, s, ret.doc_idx[j]) <= ret.value[j]
  /\ RetRanked =>
       \A i \in 1 .. Len(ret.value.ids) : \A s \in Scales :
         (s <= ret.meta_scale /\ ret.value.ids[i] \in docs)
           => ScoreAtScale(self, ret.query, ret.meta, s, ret.value.ids[i]) <= ret.value.scores[i]

MetaScaleMonotone == MonotoneFor(Docs)

(***************************************************************************)
(* C8 as amended: the same, for a document whose boost values for the      *)
(* query sum to 0 or more.                                                 *)
(***************************************************************************)
MetaScaleMonotoneNonNegativeBoost ==
  MonotoneFor({d \in Docs :
                 BoostValueSum(self, ret.query, Boosting(self, ret.query, ret.meta), d) >= 0})

\* a positively boosted document scored with meta_scale > 0
MetaScaleMonotoneWitness ==
  /\ RetScored
  /\ ret.meta_scale > 0
  /\ \E j \in 1 .. Len(ret.doc_idx) :
       /\ BoostValueSum(self, ret.query, Boosting(self, ret.query, ret.meta), ret.doc_idx[j]) > 0
       /\ ret.value[j] > ScoreAtScale(self, ret.query, ret.meta, 0, ret.doc_idx[j])

(***************************************************************************)
(* C9: closest_docs returns every scored candidate when there are at most  *)
(* k, and otherwise exactly k of them, none of the candidates left out     *)
(* having a score greater than a returned one.                             *)
(***************************************************************************)
Candidates(obj, query, meta, meta_scale) == DOMAIN ScoreRow(obj, query, meta, meta_scale).res

SelectsKBest ==
  RetRanked =>
    LET row == ScoreRow(self, ret.query, ret.meta, ret.meta_scale).res
        got == Range(ret.value.ids)
    IN /\ Cardinality(got) = Len(ret.value.ids)
       /\ got \subseteq DOMAIN row
       /\ \A i \in DOMAIN ret.value.ids : ret.value.scores[i] = row[ret.value.ids[i]]
       /\ IF Cardinality(DOMAIN row) <= ret.k
          THEN got = DOMAIN row
          ELSE /\ Len(ret.value.ids) = ret.k
               /\ \A c \in (DOMAIN row) \ got : \A r \in got : ~(row[c] > row[r])

\* more candidates than k, and a candidate left out scores below the results
SelectsKBestWitness ==
  /\ RetRanked
  /\ Cardinality(Candidates(self, ret.query, ret.meta, ret.meta_scale)) > ret.k
  /\ ret.k = 2
  /\ \E c \in Candidates(self, ret.query, ret.meta, ret.meta_scale) \ Range(ret.value.ids) :
       ScoreAtScale(self, ret.query, ret.meta, ret.meta_scale, c) < ret.value.scores[2]
  /\ ret.value.scores[1] > ret.value.scores[2]

(***************************************************************************)
(* C10 as claimed: a requested meta source name that the per-meta-source   *)
(* table does not have is skipped: the call does not fail and returns what *)
(* it returns without that name.                                           *)
(***************************************************************************)
KnownMeta(obj, meta) == SelectSeq(meta, LAMBDA m : m \in DOMAIN obj.doc_dict[4])

UnknownMetaSkipped ==
  (/\ ret.op \in {"closest_docs", "doc_scores"}
   /\ Len(self.doc_dict) = 4
   /\ \E i \in DOMAIN ret.meta : ret.meta[i] \notin DOMAIN self.doc_dict[4])
    => IF ret.op = "doc_scores"
       THEN LET r == doc_scores(self, ret.query, ret.doc_idx, KnownMeta(self, ret.meta),
                                ret.meta_scale)
            IN ret.status = r.status /\ ret.value = r.value
       ELSE \E r \in closest_docs(self, ret.query, KnownMeta(self, ret.meta),
                                  ret.meta_scale, ret.k) :
              ret.status = r.status /\ ret.value = r.value

====
